---- MODULE Spec2Model ----
(***************************************************************************)
(* WishlistInjectorPOC (inherit-styling.js): inject() clones an anchor     *)
(* element of the document, sanitises the clone, substitutes the heart     *)
(* icon, inserts the clone before the anchor and calls _matchIconScale()   *)
(* to scale the heart's path.                                              *)
(*                                                                         *)
(* The document is a tree of elements.  An element is a record             *)
(*   [tag, attrs, onclick, kids]                                           *)
(* where attrs maps the names of the attributes that are present to their  *)
(* values.  Attribute values are strings, modelled as sequences of         *)
(* one-character strings so that substring tests, case folding and         *)
(* splitting are computed; the value of a transform attribute is the       *)
(* sequence of its transform functions, with exact rational arguments.     *)
(* A rational is a pair <<n, d>> with d > 0 in lowest terms.               *)
(***************************************************************************)
EXTENDS Integers, Sequences, FiniteSets, TLC

VARIABLES doc,       \* the live document: its root element
          console,   \* what the last call wrote to the console, in order
          prevDoc,   \* the document as it was when the last inject call began
          lastCall,  \* the selector passed to the last inject call
          scaleIn,   \* the arguments and measurements of a direct _matchIconScale call
          scaleOut,  \* the heart icon and console output after that call
          phase      \* "idle" | "injected" | "ready" | "scaled"

vars == <<doc, console, prevDoc, lastCall, scaleIn, scaleOut, phase>>

----------------------------------------------------------------------------
(* Strings *)

UpperChars == <<"A","B","C","D","E","F","G","H","I","J","K","L","M",
                "N","O","P","Q","R","S","T","U","V","W","X","Y","Z">>
LowerChars == <<"a","b","c","d","e","f","g","h","i","j","k","l","m",
                "n","o","p","q","r","s","t","u","v","w","x","y","z">>

LowerChar(c) ==
  IF \E i \in DOMAIN UpperChars : UpperChars[i] = c
  THEN LowerChars[CHOOSE i \in DOMAIN UpperChars : UpperChars[i] = c]
  ELSE c

\* String.prototype.toLowerCase
ToLowerCase(s) == [i \in 1..Len(s) |-> LowerChar(s[i])]

\* String.prototype.includes, and the substring test of [attr*="..."]
Includes(s, sub) ==
  \E i \in 0..(Len(s) - Len(sub)) : SubSeq(s, i + 1, i + Len(sub)) = sub

IsSpace(c) == c \in {" ", "\t", "\n"}

RECURSIVE SplitTokens(_, _, _)
\* the ordered-set parser of a DOMTokenList: split on whitespace, keep the
\* first occurrence of every token
SplitTokens(s, cur, acc) ==
  LET push == IF cur = <<>> \/ (\E k \in DOMAIN acc : acc[k] = cur)
              THEN acc ELSE Append(acc, cur)
  IN IF s = <<>> THEN push
     ELSE IF IsSpace(Head(s)) THEN SplitTokens(Tail(s), <<>>, push)
     ELSE SplitTokens(Tail(s), Append(cur, Head(s)), acc)

RECURSIVE JoinTokens(_)
\* the ordered-set serializer: the tokens joined by single spaces
JoinTokens(toks) ==
  IF toks = <<>> THEN <<>>
  ELSE IF Len(toks) = 1 THEN toks[1]
  ELSE toks[1] \o <<" ">> \o JoinTokens(Tail(toks))

cart == <<"c","a","r","t">>
slashCart == <<"/","c","a","r","t">>
nullString == <<"n","u","l","l">>
wishlistButtonId == <<"swym-wishlist-header-button">>
wishlistPageUrl == <<"/","a","p","p","s","/","w","i","s","h","l","i","s","t">>
wishlistAriaLabel == <<"Wishlist (0 items)">>

----------------------------------------------------------------------------
(* Elements *)

Elem(tag, attrs, kids) ==
  [tag |-> tag, attrs |-> attrs, onclick |-> "none", kids |-> kids]

NoAttrs == <<>>

\* the value null where an element is expected
NoElement == Elem("", NoAttrs, <<>>)

HasAttribute(el, name) == name \in DOMAIN el.attrs

SetAttribute(el, name, value) ==
  [el EXCEPT !.attrs =
     [n \in (DOMAIN el.attrs) \cup {name} |->
        IF n = name THEN value ELSE el.attrs[n]]]

RemoveAttribute(el, name) ==
  [el EXCEPT !.attrs = [n \in (DOMAIN el.attrs) \ {name} |-> el.attrs[n]]]

\* element.classList
ClassList(el) ==
  IF HasAttribute(el, "class") THEN SplitTokens(el.attrs["class"], <<>>, <<>>)
  ELSE <<>>

RECURSIVE ElemAt(_, _)
ElemAt(root, path) ==
  IF path = <<>> THEN root ELSE ElemAt(root.kids[Head(path)], Tail(path))

RECURSIVE ReplaceAt(_, _, _)
ReplaceAt(root, path, el) ==
  IF path = <<>> THEN el
  ELSE [root EXCEPT !.kids[Head(path)] = ReplaceAt(@, Tail(path), el)]

RECURSIVE DescendantPaths(_)
\* the paths of the descendants of el (el excluded), in document order
DescendantPaths(el) ==
  LET RECURSIVE From(_)
      From(i) ==
        IF i > Len(el.kids) THEN <<>>
        ELSE LET below == DescendantPaths(el.kids[i])
             IN <<<<i>>>> \o [k \in 1..Len(below) |-> <<i>> \o below[k]]
                \o From(i + 1)
  IN From(1)

\* the paths of el and its descendants, in document order
SubtreePaths(el) == <<<<>>>> \o DescendantPaths(el)

----------------------------------------------------------------------------
(* Selectors.  A selector is a comma list of simple selectors              *)
(*   [kind, tag, attr, val]:  tag = "" matches every element type.         *)

TypeSel(tag) == [kind |-> "type", tag |-> tag, attr |-> "", val |-> <<>>]
AttrContainsSel(tag, attr, val) ==
  [kind |-> "contains", tag |-> tag, attr |-> attr, val |-> val]
AttrPresentSel(attr) == [kind |-> "present", tag |-> "", attr |-> attr, val |-> <<>>]
IdSel(id) == [kind |-> "equals", tag |-> "", attr |-> "id", val |-> id]

MatchesSimple(el, s) ==
  /\ s.tag = "" \/ el.tag = s.tag
  /\ CASE s.kind = "type" -> TRUE
       [] s.kind = "contains" ->
            HasAttribute(el, s.attr) /\ Includes(el.attrs[s.attr], s.val)
       [] s.kind = "present" -> HasAttribute(el, s.attr)
       [] s.kind = "equals" ->
            HasAttribute(el, s.attr) /\ el.attrs[s.attr] = s.val

\* element.matches(selector)
Matches(el, sel) == \E k \in DOMAIN sel : MatchesSimple(el, sel[k])

NotFound == [found |-> FALSE, path |-> <<>>]

FirstMatch(root, paths, sel) ==
  LET hits == SelectSeq(paths, LAMBDA p : Matches(ElemAt(root, p), sel))
  IN IF hits = <<>> THEN NotFound ELSE [found |-> TRUE, path |-> hits[1]]

\* element.querySelector(selector): the first descendant that matches
QuerySelector(el, sel) == FirstMatch(el, DescendantPaths(el), sel)

\* document.querySelector(selector): the root element is a candidate too
DocumentQuerySelector(root, sel) == FirstMatch(root, SubtreePaths(root), sel)

\* document.getElementById(id)
GetElementById(root, id) == DocumentQuerySelector(root, <<IdSel(id)>>)

RECURSIVE RemoveFromDescendants(_, _, _)
\* el.querySelectorAll(sel).forEach(e => e.removeAttribute(attr))
RemoveFromDescendants(el, sel, attr) ==
  [el EXCEPT !.kids =
     [i \in 1..Len(el.kids) |->
        LET k == el.kids[i]
            k2 == IF Matches(k, sel) THEN RemoveAttribute(k, attr) ELSE k
        IN RemoveFromDescendants(k2, sel, attr)]]

RECURSIVE CloneNode(_)
\* node.cloneNode(true): attributes and descendants are copied, handlers
\* assigned to the onclick property are not
CloneNode(el) ==
  [el EXCEPT !.onclick = "none",
             !.kids = [i \in 1..Len(el.kids) |-> CloneNode(el.kids[i])]]

\* element.tagName: upper case for the HTML elements of an HTML document
TagName(el) ==
  CASE el.tag = "a" -> "A"
    [] el.tag = "button" -> "BUTTON"
    [] el.tag = "div" -> "DIV"
    [] el.tag = "span" -> "SPAN"
    [] el.tag = "i" -> "I"
    [] el.tag = "img" -> "IMG"
    [] el.tag = "html" -> "HTML"
    [] OTHER -> el.tag

----------------------------------------------------------------------------
(* Numbers *)

Abs(n) == IF n < 0 THEN -n ELSE n

RECURSIVE GCD(_, _)
GCD(a, b) == IF b = 0 THEN a ELSE GCD(b, a % b)

\* n / d as JavaScript computes it, exactly: a denominator of 0 marks a
\* non-finite result (Infinity, -Infinity or NaN)
Div(n, d) ==
  IF d = 0 THEN <<n, 0>>
  ELSE LET sn == IF d < 0 THEN -n ELSE n
           sd == Abs(d)
           g == GCD(Abs(sn), sd)
       IN <<sn \div g, sd \div g>>

Num(n) == <<n, 1>>
Neg(q) == <<-q[1], q[2]>>
IsFiniteNum(q) == q[2] # 0
Less(a, b) == a[1] * b[2] < b[1] * a[2]
MathMax(a, b) == IF Less(a, b) THEN b ELSE a
MathMin(a, b) == IF Less(b, a) THEN b ELSE a

RECURSIVE Pow10(_)
\* Math.pow(10, k)
Pow10(k) == IF k = 0 THEN 1 ELSE 10 * Pow10(k - 1)

\* Math.round(q * pow) / pow
RoundTo(q, pow) == Div((2 * q[1] * pow + q[2]) \div (2 * q[2]), pow)

DigitChars == <<"0","1","2","3","4","5","6","7","8","9">>
IsDigit(c) == \E i \in DOMAIN DigitChars : DigitChars[i] = c
DigitValue(c) == (CHOOSE i \in DOMAIN DigitChars : DigitChars[i] = c) - 1

RECURSIVE DigitsValue(_, _)
DigitsValue(s, acc) ==
  IF s = <<>> THEN acc ELSE DigitsValue(Tail(s), 10 * acc + DigitValue(Head(s)))

\* Number(s) for a string of digits and other printable characters: the empty
\* string is 0, a run of digits its decimal value, anything else NaN
ToNumber(s) ==
  IF \A i \in DOMAIN s : IsDigit(s[i])
  THEN [nan |-> FALSE, v |-> DigitsValue(s, 0)]
  ELSE [nan |-> TRUE, v |-> 0]

RECURSIVE DropSpaces(_)
DropSpaces(s) ==
  IF s # <<>> /\ IsSpace(Head(s)) THEN DropSpaces(Tail(s)) ELSE s

RECURSIVE SplitViewBox(_, _, _)
\* vb.split(/\s+|,/): a separator is a maximal run of whitespace or one comma;
\* the empty pieces between adjacent separators are kept
SplitViewBox(s, cur, acc) ==
  IF s = <<>> THEN Append(acc, cur)
  ELSE IF Head(s) = "," THEN SplitViewBox(Tail(s), <<>>, Append(acc, cur))
  ELSE IF IsSpace(Head(s)) THEN SplitViewBox(DropSpaces(s), <<>>, Append(acc, cur))
  ELSE SplitViewBox(Tail(s), Append(cur, Head(s)), acc)

----------------------------------------------------------------------------
(* The heart icon *)

viewBox24 == <<"0"," ","0"," ","2","4"," ","2","4">>
heartPathData == <<"M20.84 4.61a5.5 5.5 0 0 0-7.78 0L12 5.67l-1.06-1.06a5.5 5.5 0 0 0-7.78 7.78l1.06 1.06L12 21.23l7.78-7.78 1.06-1.06a5.5 5.5 0 0 0 0-7.78z">>

heartIconSVGString ==
  Elem("svg",
       [n \in {"xmlns", "viewBox", "fill", "stroke", "stroke-linecap",
               "stroke-linejoin", "aria-hidden", "focusable", "role"} |->
          CASE n = "xmlns" -> <<"http://www.w3.org/2000/svg">>
            [] n = "viewBox" -> viewBox24
            [] n = "fill" -> <<"none">>
            [] n = "stroke" -> <<"currentColor">>
            [] n = "stroke-linecap" -> <<"round">>
            [] n = "stroke-linejoin" -> <<"round">>
            [] n = "aria-hidden" -> <<"true">>
            [] n = "focusable" -> <<"false">>
            [] n = "role" -> <<"presentation">>],
       <<Elem("path", [d |-> heartPathData], <<>>)>>)

\* referenceIcon.getAttribute('class') as setAttribute stringifies it: the
\* string "null" when the reference icon has no class attribute
ClassAttributeString(el) ==
  IF HasAttribute(el, "class") THEN el.attrs["class"] ELSE nullString

\* createHeartSvg(referenceIcon); refFound = FALSE is the call with null
createHeartSvg(refFound, referenceIcon) ==
  LET newSvg == heartIconSVGString
  IN IF refFound
     THEN SetAttribute(newSvg, "class", ClassAttributeString(referenceIcon))
     ELSE newSvg

----------------------------------------------------------------------------
(* _getIconInfo and _matchIconScale.  What layout reports for the two      *)
(* paths and the heart's svg is the record m of measurements:              *)
(*   refRect, heartRect, svgRect  getBoundingClientRect()                  *)
(*   refBBox, heartBBox           getBBox()                                *)
(*   heartStyle                   getComputedStyle() of the heart's path   *)
(* A box is [ok, x, y, width, height]; ok = FALSE is null (the call threw).*)
(* A style is [ok, strokeWidth, vectorEffect], strokeWidth being what      *)
(* parseFloat makes of the stroke-width value: [nan, v].                   *)

Box(x, y, w, h) == [ok |-> TRUE, x |-> x, y |-> y, width |-> w, height |-> h]
NullBox == [ok |-> FALSE, x |-> 0, y |-> 0, width |-> 0, height |-> 0]

\* the argument maxScaleDecimals: a number, or not passed (undefined)
NotGiven == [given |-> FALSE, n |-> 0]
Given(n) == [given |-> TRUE, n |-> n]

DefaultScaleDecimals == 3
DefaultStrokeWidthPx == 1
DefaultCenter == 12

pathSelector == <<TypeSel("path")>>

RECURSIVE OwnerSvg(_, _)
\* el.ownerSVGElement || el.closest('svg') for the element at path in root:
\* its nearest svg ancestor
OwnerSvg(root, path) ==
  IF path = <<>> THEN NotFound
  ELSE LET up == SubSeq(path, 1, Len(path) - 1)
       IN IF ElemAt(root, up).tag = "svg" THEN [found |-> TRUE, path |-> up]
          ELSE OwnerSvg(root, up)

\* the width read from the rendered rectangle alone
MeasuredWidthRectOnly(rect, bbox) == IF rect.ok THEN rect.width ELSE 0

\* rect && rect.width ? rect.width : (bbox ? bbox.width : null); null and 0
\* are told apart by nothing that reads the result, so null is 0 here
MeasuredWidth(rect, bbox) ==
  IF rect.ok /\ rect.width # 0 THEN rect.width
  ELSE IF bbox.ok THEN bbox.width ELSE 0

MeasuredHeight(rect, bbox) ==
  IF rect.ok /\ rect.height # 0 THEN rect.height
  ELSE IF bbox.ok THEN bbox.height ELSE 0

DesiredScale(refWidthPx, refHeightPx, heartWidthPx, heartHeightPx) ==
  MathMax(Div(refWidthPx, heartWidthPx), Div(refHeightPx, heartHeightPx))

StrokeWidthPx(cstyle) ==
  IF cstyle.ok
  THEN (IF cstyle.strokeWidth.nan THEN DefaultStrokeWidthPx ELSE cstyle.strokeWidth.v)
  ELSE DefaultStrokeWidthPx

\* vectorEffect && vectorEffect.indexOf('non-scaling-stroke') !== -1
NonScalingStroke(cstyle) == cstyle.ok /\ cstyle.vectorEffect = "non-scaling-stroke"

\* the maximum that forgets the stroke
MaxScaleIgnoringStroke(svgBox, pathPx, strokeWidthPx, nonScaling) ==
  Div(svgBox, pathPx)

MaxScaleByAxis(svgBox, pathPx, strokeWidthPx, nonScaling) ==
  IF nonScaling THEN Div(svgBox - strokeWidthPx, pathPx)
  ELSE Div(svgBox, pathPx + strokeWidthPx)

\* if (!(isFinite(max) && max > 0)) max = desiredScale
ReasonableMax(max, desiredScale) ==
  IF ~(IsFiniteNum(max) /\ max[1] > 0) THEN desiredScale ELSE max

ClampScale(desiredScale, svgFound, svgRect, heartWidthPx, heartHeightPx, cstyle) ==
  IF svgFound /\ svgRect.ok /\ svgRect.width # 0 /\ svgRect.height # 0
  THEN LET sw == StrokeWidthPx(cstyle)
           ns == NonScalingStroke(cstyle)
           maxScaleByWidth ==
             ReasonableMax(MaxScaleByAxis(svgRect.width, heartWidthPx, sw, ns),
                           desiredScale)
           maxScaleByHeight ==
             ReasonableMax(MaxScaleByAxis(svgRect.height, heartHeightPx, sw, ns),
                           desiredScale)
           maxAllowedScale == MathMin(maxScaleByWidth, maxScaleByHeight)
       IN MathMin(desiredScale, maxAllowedScale)
  ELSE desiredScale

\* the parameter default (maxScaleDecimals = 3), then maxScaleDecimals || 3
EffectiveDecimals(maxScaleDecimals) ==
  LET param == IF maxScaleDecimals.given THEN maxScaleDecimals.n
               ELSE DefaultScaleDecimals
  IN IF param = 0 THEN DefaultScaleDecimals ELSE param

FinalScale(clampScale, maxScaleDecimals) ==
  RoundTo(clampScale, Pow10(EffectiveDecimals(maxScaleDecimals)))

DefaultPivot == [cx |-> Num(DefaultCenter), cy |-> Num(DefaultCenter)]

\* the centre the transform scales about, in the svg's user units
PivotCenter(svg, bbox) ==
  IF HasAttribute(svg, "viewBox") /\ svg.attrs["viewBox"] # <<>>
  THEN LET pieces == SplitViewBox(svg.attrs["viewBox"], <<>>, <<>>)
           parts == [i \in 1..Len(pieces) |-> ToNumber(pieces[i])]
       IN IF Len(parts) = 4 /\ \A i \in 1..4 : ~parts[i].nan
          THEN [cx |-> Div(2 * parts[1].v + parts[3].v, 2),
                cy |-> Div(2 * parts[2].v + parts[4].v, 2)]
          ELSE DefaultPivot
  ELSE IF bbox.ok
  THEN [cx |-> Div(2 * bbox.x + bbox.width, 2),
        cy |-> Div(2 * bbox.y + bbox.height, 2)]
  ELSE DefaultPivot

Translate(x, y) == [fn |-> "translate", args |-> <<x, y>>]
Scale(k) == [fn |-> "scale", args |-> <<k>>]

\* `translate(${cx} ${cy}) scale(${finalScale}) translate(${-cx} ${-cy})`
NewTransform(cx, cy, finalScale) ==
  <<Translate(cx, cy), Scale(finalScale), Translate(Neg(cx), Neg(cy))>>

\* heartEl.getAttribute('transform') || ''
ExistingTransform(heartEl) ==
  IF HasAttribute(heartEl, "transform") THEN heartEl.attrs["transform"] ELSE <<>>

ScalerResult(heartSvg, msg) == [heart |-> heartSvg, console |-> <<msg>>]

\* _matchIconScale(referenceIcon, heartSvg, maxScaleDecimals): the heart icon
\* as the call leaves it and what the call logs
matchIconScale(referenceIcon, heartSvg, maxScaleDecimals, m) ==
  IF referenceIcon = NoElement \/ heartSvg = NoElement
  THEN ScalerResult(heartSvg, "warn: Missing reference or heart icon")
  ELSE
  LET refEl == QuerySelector(referenceIcon, pathSelector)
      heartEl == QuerySelector(heartSvg, pathSelector)
  IN
  IF ~refEl.found
  THEN ScalerResult(heartSvg, "warn: No <path> found in reference icon")
  ELSE IF ~heartEl.found
  THEN ScalerResult(heartSvg, "warn: No <path> found in new heart icon")
  ELSE
  LET svg == OwnerSvg(heartSvg, heartEl.path)
      refWidthPx == MeasuredWidth(m.refRect, m.refBBox)
      refHeightPx == MeasuredHeight(m.refRect, m.refBBox)
      heartWidthPx == MeasuredWidth(m.heartRect, m.heartBBox)
      heartHeightPx == MeasuredHeight(m.heartRect, m.heartBBox)
  IN
  IF refWidthPx = 0 \/ heartWidthPx = 0 \/ refHeightPx = 0 \/ heartHeightPx = 0
  THEN ScalerResult(heartSvg, "warn: Could not determine widths/heights for scaling")
  ELSE
  LET desiredScale == DesiredScale(refWidthPx, refHeightPx, heartWidthPx, heartHeightPx)
      clampScale == ClampScale(desiredScale, svg.found, m.svgRect,
                               heartWidthPx, heartHeightPx, m.heartStyle)
      finalScale == FinalScale(clampScale, maxScaleDecimals)
  IN
  IF ~svg.found
  THEN ScalerResult(heartSvg, "warn: Heart svg not found")
  ELSE
  LET c == PivotCenter(ElemAt(heartSvg, svg.path), m.heartBBox)
      path == ElemAt(heartSvg, heartEl.path)
      scaled == SetAttribute(path, "transform",
                  NewTransform(c.cx, c.cy, finalScale) \o ExistingTransform(path))
  IN ScalerResult(ReplaceAt(heartSvg, heartEl.path, scaled),
                  "log: Heart icon scaled")

----------------------------------------------------------------------------
(* inject *)

\* the test without the case folding
IsCartClassCaseSensitive(className) == Includes(className, cart)

\* className.toLowerCase().includes('cart')
IsCartClass(className) == Includes(ToLowerCase(className), cart)

\* classList.forEach(...) collecting classesToRemove, then
\* classList.remove(...classesToRemove), which rewrites the class attribute
\* as the serialised token set (and leaves an element without a class
\* attribute and without tokens alone)
RemoveCartClasses(el) ==
  LET tokens == ClassList(el)
      classesToRemove == SelectSeq(tokens, IsCartClass)
      kept == SelectSeq(tokens,
                LAMBDA t : ~(\E k \in DOMAIN classesToRemove : classesToRemove[k] = t))
  IN IF ~HasAttribute(el, "class") /\ kept = <<>> THEN el
     ELSE SetAttribute(el, "class", JoinTokens(kept))

cartIdSelector == <<AttrContainsSel("", "id", cart)>>
cartStatusSelector == <<AttrPresentSel("data-cart-status")>>
cartHrefSelector == <<AttrContainsSel("a", "href", slashCart)>>
iconSelector ==
  <<TypeSel("svg"),
    AttrContainsSel("i", "class", <<"i","c","o","n">>),
    AttrContainsSel("i", "class", <<"f","a","-">>),
    TypeSel("img")>>

\* a guard that never finds the earlier injection
AlreadyInjectedNever(root) == FALSE

\* step 2 of inject: is our icon already in the document?
AlreadyInjected(root) == GetElementById(root, wishlistButtonId).found

\* the clone after "Remove cart-specific hrefs"
RemoveCartHrefs(el) ==
  LET top == IF Matches(el, cartHrefSelector) THEN RemoveAttribute(el, "href") ELSE el
  IN RemoveFromDescendants(top, cartHrefSelector, "href")

\* the link test against the lower-case name, which tagName never is
AddWishlistBehaviourLowerCaseTag(el) ==
  IF TagName(el) = "a" THEN SetAttribute(el, "href", wishlistPageUrl)
  ELSE [SetAttribute(el, "style", <<"cursor: pointer;">>)
          EXCEPT !.onclick = "wishlistPageUrl"]

\* "Add our wishlist functionality"
AddWishlistBehaviour(el) ==
  IF TagName(el) = "A" THEN SetAttribute(el, "href", wishlistPageUrl)
  ELSE [SetAttribute(el, "style", <<"cursor: pointer;">>)
          EXCEPT !.onclick = "wishlistPageUrl"]

\* step 4 of inject: the clone, modified, before its icon is replaced
ModifyClone(cartElement) ==
  LET w1 == SetAttribute(CloneNode(cartElement), "id", wishlistButtonId)
      w2 == RemoveCartClasses(w1)
      w3 == RemoveFromDescendants(w2, cartIdSelector, "id")
      w4 == RemoveFromDescendants(w3, cartStatusSelector, "data-cart-status")
      w5 == AddWishlistBehaviour(RemoveCartHrefs(w4))
  IN SetAttribute(w5, "aria-label", wishlistAriaLabel)

\* the fallback heart put first among the children instead of last
ReplaceIconPrepend(wishlistElement, cartElement) ==
  LET originalIcon == QuerySelector(wishlistElement, iconSelector)
      referenceIcon == QuerySelector(cartElement, iconSelector)
  IN IF originalIcon.found /\ referenceIcon.found
     THEN [el |-> ReplaceAt(wishlistElement, originalIcon.path,
                    createHeartSvg(TRUE, ElemAt(cartElement, referenceIcon.path))),
           heartPath |-> originalIcon.path,
           refFound |-> referenceIcon.found,
           console |-> <<>>]
     ELSE [el |-> [wishlistElement EXCEPT
                     !.kids = <<createHeartSvg(FALSE, NoElement)>> \o @],
           heartPath |-> <<1>>,
           refFound |-> referenceIcon.found,
           console |-> <<"warn: Could not find an icon inside the cloned cart element">>]

\* step 5 of inject: [el, heartPath, refFound, console]
ReplaceIcon(wishlistElement, cartElement) ==
  LET originalIcon == QuerySelector(wishlistElement, iconSelector)
      referenceIcon == QuerySelector(cartElement, iconSelector)
  IN IF originalIcon.found /\ referenceIcon.found
     THEN [el |-> ReplaceAt(wishlistElement, originalIcon.path,
                    createHeartSvg(TRUE, ElemAt(cartElement, referenceIcon.path))),
           heartPath |-> originalIcon.path,
           refFound |-> referenceIcon.found,
           console |-> <<>>]
     ELSE [el |-> [wishlistElement EXCEPT
                     !.kids = Append(@, createHeartSvg(FALSE, NoElement))],
           heartPath |-> <<Len(wishlistElement.kids) + 1>>,
           refFound |-> referenceIcon.found,
           console |-> <<"warn: Could not find an icon inside the cloned cart element">>]

InsertAt(s, i, e) == SubSeq(s, 1, i - 1) \o <<e>> \o SubSeq(s, i, Len(s))

\* the clone put after the anchor instead of before it
InsertAfter(root, path, el) ==
  LET up == SubSeq(path, 1, Len(path) - 1)
      parent == ElemAt(root, up)
  IN ReplaceAt(root, up,
       [parent EXCEPT !.kids = InsertAt(@, path[Len(path)] + 1, el)])

\* parent.insertBefore(el, the child at path)
InsertBefore(root, path, el) ==
  LET up == SubSeq(path, 1, Len(path) - 1)
      parent == ElemAt(root, up)
  IN ReplaceAt(root, up,
       [parent EXCEPT !.kids = InsertAt(@, path[Len(path)], el)])

\* steps 3 to 7 of inject for the anchor at cartPath
InjectClone(root, cartPath, m) ==
  LET cartElement == ElemAt(root, cartPath)
      r == ReplaceIcon(ModifyClone(cartElement), cartElement)
      referenceIcon == IF r.refFound
                       THEN ElemAt(cartElement, QuerySelector(cartElement, iconSelector).path)
                       ELSE NoElement
      heartSvg == ElemAt(r.el, r.heartPath)
  IN IF cartPath = <<>>
     THEN \* cartElement.parentElement is null: the TypeError is caught
          [doc |-> root,
           console |-> r.console \o <<"error: Error injecting wishlist icon">>]
     ELSE IF r.refFound /\ heartSvg # NoElement
     THEN LET s == matchIconScale(referenceIcon, heartSvg, NotGiven, m)
          IN [doc |-> InsertBefore(root, cartPath,
                        ReplaceAt(r.el, r.heartPath, s.heart)),
              console |-> r.console
                          \o <<"log: Wishlist icon injected successfully">>
                          \o s.console]
     ELSE [doc |-> InsertBefore(root, cartPath, r.el),
           console |-> r.console
                       \o <<"log: Wishlist icon injected successfully",
                            "warn: Could not scale icon, missing referenceIcon or heartSvg">>]

\* cartSelector === undefined, which lets the empty string through
SelectorUndefinedOnly(cartSelector) == cartSelector.js = "undefined"

\* !cartSelector
SelectorMissing(cartSelector) == cartSelector.js \in {"undefined", "empty"}

\* inject(cartSelector): the document and the console after the call
inject(root, cartSelector, m) ==
  IF SelectorMissing(cartSelector)
  THEN [doc |-> root, console |-> <<"error: No cart selector provided">>]
  ELSE IF cartSelector.js = "invalid"
  THEN \* document.querySelector throws a SyntaxError, which is caught
       [doc |-> root, console |-> <<"error: Error injecting wishlist icon">>]
  ELSE LET cartElement == DocumentQuerySelector(root, cartSelector.sel)
       IN IF ~cartElement.found
          THEN [doc |-> root, console |-> <<"error: Could not find element with selector">>]
          ELSE IF AlreadyInjected(root)
          THEN [doc |-> root, console |-> <<"log: Wishlist icon already present">>]
          ELSE InjectClone(root, cartElement.path, m)

----------------------------------------------------------------------------
(* The documents and calls explored *)

\* the most elements the header holds before the cart element
MaxSiblingsBefore == 1
\* the largest rendered width or height, in px
MaxPx == 2
\* the largest computed stroke width, in px
MaxStrokeWidth == 2
\* the largest maxScaleDecimals passed explicitly
MaxDecimals == 2

Attr1(n, v) == [x \in {n} |-> v]
Attr2(n1, v1, n2, v2) == [x \in {n1, n2} |-> IF x = n1 THEN v1 ELSE v2]

hrefCart == slashCart
hrefCartUpper == <<"/","C","a","r","t">>
hrefHome == <<"/">>

ClassValues ==
  { <<"h","i"," ","h","-","C","a","r","t">>,          \* "hi h-Cart"
    <<"x"," "," ","c","a","r","t"," ","x">>,          \* "x  cart x"
    <<"C","A","R","T"," ","c","a","r"," ","t">>,      \* "CART car t"
    <<"h","i">> }                                     \* "hi"

\* the root of a cart element, without class and children
CartRoots ==
  { Elem("a", Attr1("href", hrefCart), <<>>),
    Elem("a", Attr1("href", hrefCartUpper), <<>>),
    Elem("a", NoAttrs, <<>>),
    Elem("button", Attr1("id", <<"c","a","r","t","-","b","t","n">>), <<>>) }

pathEl == Elem("path", Attr1("d", <<"M0 0h24v24H0z">>), <<>>)
cartSvg ==
  Elem("svg", Attr2("class", <<"i","c","o","n"," ","i","c","o","n","-","c","a","r","t">>,
                    "viewBox", viewBox24), <<pathEl>>)
plainSvg == Elem("svg", NoAttrs, <<pathEl>>)
fontIcon == Elem("i", Attr1("class", <<"f","a","-","c","a","r","t">>), <<>>)
plainI == Elem("i", Attr1("class", <<"x">>), <<>>)
imgIcon == Elem("img", Attr1("src", <<"cart.png">>), <<>>)
cartCount ==
  Elem("span", Attr2("id", <<"c","a","r","t","-","n">>, "data-cart-status", <<"0">>),
       <<Elem("a", Attr1("href", hrefCart \o <<"/","x">>), <<>>)>>)

\* the children of a cart element
CartChildren ==
  { <<>>,
    <<cartSvg>>,
    <<plainSvg, cartCount>>,
    <<fontIcon>>,
    <<imgIcon>>,
    <<cartCount, plainI>>,
    <<Elem("div", Attr1("id", <<"w">>), <<cartSvg>>), cartCount>> }

\* a cart element: a root, with or without a class attribute, and children
CartElement(root, hasClass, class, kids) ==
  [(IF hasClass THEN SetAttribute(root, "class", class) ELSE root)
     EXCEPT !.kids = kids]

logo == Elem("a", Attr2("class", <<"l","o","g","o">>, "href", hrefHome), <<>>)

Document(before, cartElement) ==
  Elem("html", NoAttrs,
       <<Elem("div", Attr1("class", <<"h","e","a","d","e","r">>),
              [i \in 1..before |-> logo] \o <<cartElement>>)>>)

CssSelector(sel) == [js |-> "selector", sel |-> sel]

CartSelectors ==
  { [js |-> "undefined", sel |-> <<>>],
    [js |-> "empty", sel |-> <<>>],
    [js |-> "invalid", sel |-> <<>>],
    CssSelector(<<TypeSel("a")>>),
    CssSelector(<<TypeSel("button")>>),
    CssSelector(<<TypeSel("html")>>),
    CssSelector(<<TypeSel("cart-drawer-component")>>),
    CssSelector(<<AttrContainsSel("a", "href", slashCart)>>),
    CssSelector(<<IdSel(wishlistButtonId)>>) }

Style(sw, ve) ==
  [ok |-> TRUE, strokeWidth |-> [nan |-> FALSE, v |-> sw], vectorEffect |-> ve]
NaNStyle(ve) ==
  [ok |-> TRUE, strokeWidth |-> [nan |-> TRUE, v |-> 0], vectorEffect |-> ve]
NullStyle == [ok |-> FALSE, strokeWidth |-> [nan |-> TRUE, v |-> 0], vectorEffect |-> ""]

Measurements(refRect, refBBox, heartRect, heartBBox, heartStyle, svgRect) ==
  [refRect |-> refRect, refBBox |-> refBBox, heartRect |-> heartRect,
   heartBBox |-> heartBBox, heartStyle |-> heartStyle, svgRect |-> svgRect]

\* what layout may report during an inject call
InjectMeasurements ==
  { Measurements(Box(0, 0, 20, 20), Box(2, 2, 20, 20), Box(0, 0, 18, 16),
                 Box(3, 4, 18, 16), Style(2, "none"), Box(0, 0, 24, 24)),
    Measurements(Box(0, 0, 20, 20), NullBox, Box(0, 0, 0, 0),
                 NullBox, NullStyle, Box(0, 0, 0, 0)) }

NoCall == [js |-> "none", sel |-> <<>>]

ScaleCall(referenceIcon, heartSvg, maxScaleDecimals, m) ==
  [referenceIcon |-> referenceIcon, heartSvg |-> heartSvg,
   maxScaleDecimals |-> maxScaleDecimals, m |-> m]

NoScaleCall ==
  ScaleCall(NoElement, NoElement, NotGiven,
            Measurements(NullBox, NullBox, NullBox, NullBox, NullStyle, NullBox))

NoScaleResult == [heart |-> NoElement, console |-> <<>>]

----------------------------------------------------------------------------
(* Calls of inject *)

Init ==
  /\ \E before \in 0..MaxSiblingsBefore, root \in CartRoots, hasClass \in BOOLEAN,
        class \in ClassValues, kids \in CartChildren :
       doc = Document(before, CartElement(root, hasClass, class, kids))
  /\ console = <<>>
  /\ prevDoc = doc
  /\ lastCall = NoCall
  /\ scaleIn = NoScaleCall
  /\ scaleOut = NoScaleResult
  /\ phase = "idle"

Inject(cartSelector, m) ==
  /\ phase \in {"idle", "injected"}
  /\ LET r == inject(doc, cartSelector, m)
     IN /\ doc' = r.doc
        /\ console' = r.console
  /\ prevDoc' = doc
  /\ lastCall' = cartSelector
  /\ phase' = "injected"
  /\ UNCHANGED <<scaleIn, scaleOut>>

Next == \E cartSelector \in CartSelectors, m \in InjectMeasurements :
          Inject(cartSelector, m)

Spec == Init /\ [][Next]_vars

----------------------------------------------------------------------------
(* Direct calls of _matchIconScale *)

ScaleDecimals == {NotGiven} \cup {Given(n) : n \in 0..MaxDecimals}

Styles ==
  {NullStyle}
  \cup {NaNStyle(ve) : ve \in {"none", "non-scaling-stroke"}}
  \cup {Style(sw, ve) : sw \in 0..MaxStrokeWidth, ve \in {"none", "non-scaling-stroke"}}

\* the heart as inject builds it from a reference icon
heartSvgEl == createHeartSvg(TRUE, cartSvg)

\* an icon with the given viewBox and path transform; absent = not set
IconWith(root, vbSet, vb, trSet, tr) ==
  LET p == IF trSet THEN SetAttribute(pathEl, "transform", tr) ELSE pathEl
      r == Elem(root, NoAttrs, <<p>>)
  IN IF vbSet THEN SetAttribute(r, "viewBox", vb) ELSE r

rotate45 == <<[fn |-> "rotate", args |-> <<Num(45)>>]>>

ViewBoxValues ==
  { viewBox24,
    <<"0"," ","0"," ","4","8"," ","2","4">>,               \* "0 0 48 24"
    <<"2",",","4",",","2","0",",","1","0">>,               \* "2,4,20,10"
    <<"0",","," ","0",","," ","4","8",","," ","4","8">>,   \* "0, 0, 48, 48"
    <<" ","0"," ","0"," ","4","8"," ","4","8">>,           \* " 0 0 48 48"
    <<"0"," "," ","0"," ","4","8","\t","4","8">>,          \* "0  0 48<tab>48"
    <<"0"," ","0"," ","4","8">>,                           \* "0 0 48"
    <<"0"," ","0"," ","4","8"," ","1","0","0","%">>,       \* "0 0 48 100%"
    <<>> }                                                \* ""

PivotIcons ==
  { IconWith("svg", TRUE, vb, trSet, tr) :
      vb \in ViewBoxValues, trSet \in BOOLEAN, tr \in {<<>>, rotate45} }
  \cup { IconWith("svg", FALSE, <<>>, trSet, tr) :
           trSet \in BOOLEAN, tr \in {<<>>, rotate45} }

RectValues == {NullBox, Box(0, 0, 0, 0), Box(0, 0, 2, 0), Box(0, 0, 2, 1)}
BBoxValues == {NullBox, Box(0, 0, 0, 0), Box(1, 1, 2, 2)}

\* every size of both paths and of the heart's svg, against the heart icon
GeometryCall ==
  \E rw \in 1..MaxPx, rh \in 1..MaxPx, hw \in 1..MaxPx, hh \in 1..MaxPx,
     vw \in 0..MaxPx, vh \in 0..MaxPx, st \in Styles, dec \in ScaleDecimals :
    scaleIn = ScaleCall(plainSvg, heartSvgEl, dec,
                Measurements(Box(0, 0, rw, rh), NullBox, Box(0, 0, hw, hh), NullBox,
                             st, Box(0, 0, vw, vh)))

\* missing icons, paths and measurements
MeasureCall ==
  \E ref \in {NoElement, fontIcon, plainSvg},
     heart \in {NoElement, Elem("svg", Attr1("viewBox", viewBox24), <<>>),
                IconWith("g", FALSE, <<>>, FALSE, <<>>), heartSvgEl},
     rr \in RectValues, rb \in BBoxValues, hr \in RectValues, hb \in BBoxValues :
    scaleIn = ScaleCall(ref, heart, NotGiven,
                Measurements(rr, rb, hr, hb, Style(1, "none"), Box(0, 0, 2, 2)))

\* every declared viewport and prior transform
PivotCall ==
  \E heart \in PivotIcons, dec \in ScaleDecimals, rw \in 1..MaxPx,
     hb \in {NullBox, Box(1, 1, 2, 2), Box(0, 1, 3, 4)} :
    scaleIn = ScaleCall(plainSvg, heart, dec,
                Measurements(Box(0, 0, rw, 1), NullBox, Box(0, 0, 1, 1), hb,
                             Style(1, "none"), Box(0, 0, 2, 2)))

InitScale ==
  /\ doc = Document(0, Elem("a", NoAttrs, <<>>))
  /\ console = <<>>
  /\ prevDoc = doc
  /\ lastCall = NoCall
  /\ GeometryCall \/ MeasureCall \/ PivotCall
  /\ scaleOut = NoScaleResult
  /\ phase = "ready"

CallMatchIconScale ==
  /\ phase = "ready"
  /\ scaleOut' = matchIconScale(scaleIn.referenceIcon, scaleIn.heartSvg,
                                scaleIn.maxScaleDecimals, scaleIn.m)
  /\ phase' = "scaled"
  /\ UNCHANGED <<doc, console, prevDoc, lastCall, scaleIn>>

NextScale == CallMatchIconScale

SpecScale == InitScale /\ [][NextScale]_vars

----------------------------------------------------------------------------
(* Properties of inject, under Spec *)

IsMarked(el) == HasAttribute(el, "id") /\ el.attrs["id"] = wishlistButtonId

\* the number of elements of the document that carry the identity marker
MarkedCount(root) ==
  Len(SelectSeq(SubtreePaths(root), LAMBDA p : IsMarked(ElemAt(root, p))))

MatchingIndexes(root, sel) ==
  {i \in DOMAIN SubtreePaths(root) : Matches(ElemAt(root, SubtreePaths(root)[i]), sel)}

SelectorResolves(root, sel) == MatchingIndexes(root, sel) # {}

\* the first element in document order that the selector matches
AnchorPath(root, sel) ==
  LET hits == MatchingIndexes(root, sel)
  IN SubtreePaths(root)[CHOOSE i \in hits : \A j \in hits : i <= j]

Called == phase = "injected"

\* the last call found its anchor in a document without a marked element
FreshCall ==
  /\ Called
  /\ lastCall.js = "selector"
  /\ SelectorResolves(prevDoc, lastCall.sel)
  /\ MarkedCount(prevDoc) = 0

RemoveIndex(s, i) == SubSeq(s, 1, i - 1) \o SubSeq(s, i + 1, Len(s))

\* the document is the earlier document plus one marked element that is the
\* sibling just before the anchor at path p
InsertedBeforeAnchor(p) ==
  /\ p # <<>>
  /\ LET up == SubSeq(p, 1, Len(p) - 1)
         i == p[Len(p)]
         after == ElemAt(doc, up)
     IN /\ Len(after.kids) = Len(ElemAt(prevDoc, up).kids) + 1
        /\ ReplaceAt(doc, up, [after EXCEPT !.kids = RemoveIndex(@, i)]) = prevDoc
        /\ IsMarked(after.kids[i])
        /\ after.kids[i + 1] = ElemAt(prevDoc, p)
        /\ MarkedCount(doc) = 1

\* C1: the document never holds more than one element with the identity
\* marker, and an inject call made while one exists leaves the document as
\* it was (so a repeated call after an insertion still leaves exactly one).
C1_AtMostOneMarked ==
  /\ MarkedCount(doc) <= 1
  /\ (Called /\ MarkedCount(prevDoc) > 0) => (doc = prevDoc /\ MarkedCount(doc) = 1)

C1_Witness ==
  /\ Called
  /\ MarkedCount(prevDoc) = 1
  /\ lastCall.js = "selector"
  /\ SelectorResolves(prevDoc, lastCall.sel)
  /\ console = <<"log: Wishlist icon already present">>
  /\ doc = prevDoc

\* C2: a call with a missing or empty selector, or with a selector that
\* matches no element, returns at its guard: one error is logged and the
\* document is unchanged.
C2_NoAnchorNoChange ==
  /\ (Called /\ lastCall.js \in {"undefined", "empty"})
       => (doc = prevDoc /\ console = <<"error: No cart selector provided">>)
  /\ (Called /\ lastCall.js = "selector" /\ ~SelectorResolves(prevDoc, lastCall.sel))
       => (doc = prevDoc /\ console = <<"error: Could not find element with selector">>)

C2_Witness ==
  /\ Called
  /\ lastCall.js = "empty"
  /\ MarkedCount(prevDoc) = 0
  /\ doc = prevDoc

\* C3 as stated: whenever inject finds the anchor and no marked element
\* exists, the document changes by exactly one inserted subtree, marked at
\* its root, immediately before the unchanged anchor.
C3_InsertsBeforeAnyAnchor ==
  FreshCall => InsertedBeforeAnchor(AnchorPath(prevDoc, lastCall.sel))

\* C3 amended: the same, for an anchor that has a parent element (every
\* anchor but the document's root element).
C3_InsertsBeforeAnchorWithParent ==
  (FreshCall /\ AnchorPath(prevDoc, lastCall.sel) # <<>>)
    => InsertedBeforeAnchor(AnchorPath(prevDoc, lastCall.sel))

C3_Witness ==
  /\ FreshCall
  /\ Len(AnchorPath(prevDoc, lastCall.sel)) = 2
  /\ AnchorPath(prevDoc, lastCall.sel)[2] > 1
  /\ doc # prevDoc

\* the anchor of the last call, and the element inserted in its place
Anchor == ElemAt(prevDoc, AnchorPath(prevDoc, lastCall.sel))
Inserted == ElemAt(doc, AnchorPath(prevDoc, lastCall.sel))
DidInsert == FreshCall /\ doc # prevDoc

\* C4: the class list of the inserted root is the anchor's class list with
\* the tokens whose lower-case form contains "cart" removed, the others kept
\* in their order.
C4_CartClassesRemoved ==
  DidInsert =>
    ClassList(Inserted) =
      SelectSeq(ClassList(Anchor), LAMBDA t : ~Includes(ToLowerCase(t), cart))

C4_Witness ==
  /\ DidInsert
  /\ \E i, j \in DOMAIN ClassList(Anchor) :
       /\ ~Includes(ClassList(Anchor)[i], cart)
       /\ Includes(ToLowerCase(ClassList(Anchor)[i]), cart)
       /\ ~Includes(ToLowerCase(ClassList(Anchor)[j]), cart)

IsCartLink(el) ==
  el.tag = "a" /\ HasAttribute(el, "href") /\ Includes(el.attrs["href"], slashCart)

\* C5: for an anchor that is a link to a target containing "/cart", the
\* inserted root links to the wishlist page, not to a target containing
\* "/cart", and no link below it keeps a target containing "/cart".
C5_CartLinkRewritten ==
  (DidInsert /\ IsCartLink(Anchor)) =>
    /\ HasAttribute(Inserted, "href")
    /\ Inserted.attrs["href"] = wishlistPageUrl
    /\ ~Includes(Inserted.attrs["href"], slashCart)
    /\ \A k \in DOMAIN DescendantPaths(Inserted) :
         ~IsCartLink(ElemAt(Inserted, DescendantPaths(Inserted)[k]))

C5_Witness ==
  /\ DidInsert
  /\ IsCartLink(Anchor)
  /\ \E k \in DOMAIN DescendantPaths(Anchor) :
       IsCartLink(ElemAt(Anchor, DescendantPaths(Anchor)[k]))

IsIconLike(el) ==
  \/ el.tag \in {"svg", "img"}
  \/ /\ el.tag = "i"
     /\ HasAttribute(el, "class")
     /\ \/ Includes(el.attrs["class"], <<"i","c","o","n">>)
        \/ Includes(el.attrs["class"], <<"f","a","-">>)

HasIconLike(el) ==
  \E k \in DOMAIN DescendantPaths(el) : IsIconLike(ElemAt(el, DescendantPaths(el)[k]))

IsHeart(el) ==
  el.tag = "svg" /\ \E k \in DOMAIN el.kids :
    el.kids[k].tag = "path" /\ HasAttribute(el.kids[k], "d")
    /\ el.kids[k].attrs["d"] = heartPathData

HeartCount(el) ==
  Len(SelectSeq(DescendantPaths(el), LAMBDA p : IsHeart(ElemAt(el, p))))

\* C6: for an anchor without an icon-like descendant the inserted element
\* holds exactly one heart icon, the last child of its root, as the template
\* gives it (no class, no transform on its path), and the scaler is not
\* called: the call logs that scaling was skipped.
C6_FallbackIconUnscaled ==
  (DidInsert /\ ~HasIconLike(Anchor)) =>
    /\ Len(Inserted.kids) = Len(Anchor.kids) + 1
    /\ Inserted.kids[Len(Inserted.kids)] = heartIconSVGString
    /\ HeartCount(Inserted) = 1
    /\ console = <<"warn: Could not find an icon inside the cloned cart element",
                   "log: Wishlist icon injected successfully",
                   "warn: Could not scale icon, missing referenceIcon or heartSvg">>

C6_Witness ==
  /\ DidInsert
  /\ ~HasIconLike(Anchor)
  /\ Len(Anchor.kids) > 0

----------------------------------------------------------------------------
(* Properties of _matchIconScale, under SpecScale *)

Scaled == phase = "scaled"

\* the call ran to its end and wrote the transform
Applied == Scaled /\ scaleOut.console = <<"log: Heart icon scaled">>

HasPath(el) ==
  \E k \in DOMAIN DescendantPaths(el) : ElemAt(el, DescendantPaths(el)[k]).tag = "path"

\* where the heart's first path is, and the path before and after the call
HeartPathAt == QuerySelector(scaleIn.heartSvg, pathSelector).path
PathBefore == ElemAt(scaleIn.heartSvg, HeartPathAt)
PathAfter == ElemAt(scaleOut.heart, HeartPathAt)
TransformAfter == PathAfter.attrs["transform"]
TransformBefore ==
  IF HasAttribute(PathBefore, "transform") THEN PathBefore.attrs["transform"] ELSE <<>>
WrittenScale == TransformAfter[2].args[1]

\* the rendered size where there is one, the geometry box otherwise
SizeW(rect, bbox) == IF rect.ok /\ rect.width > 0 THEN rect.width ELSE bbox.width
SizeH(rect, bbox) == IF rect.ok /\ rect.height > 0 THEN rect.height ELSE bbox.height
RefW == SizeW(scaleIn.m.refRect, scaleIn.m.refBBox)
RefH == SizeH(scaleIn.m.refRect, scaleIn.m.refBBox)
HeartW == SizeW(scaleIn.m.heartRect, scaleIn.m.heartBBox)
HeartH == SizeH(scaleIn.m.heartRect, scaleIn.m.heartBBox)
ViewportW == scaleIn.m.svgRect.width
ViewportH == scaleIn.m.svgRect.height
Stroke == StrokeWidthPx(scaleIn.m.heartStyle)
StrokeFixed == NonScalingStroke(scaleIn.m.heartStyle)

\* the precision the caller configured: the argument, 3 when it is not passed
ConfiguredDecimals ==
  IF scaleIn.maxScaleDecimals.given THEN scaleIn.maxScaleDecimals.n ELSE 3

\* scaled path plus stroke stays within the viewport size v on an axis where
\* the path measures p, up to half a unit of the last configured digit
WithinViewport(v, p) ==
  LET a == WrittenScale[1]
      b == WrittenScale[2]
      pw == Pow10(ConfiguredDecimals)
  IN IF StrokeFixed
     THEN 2 * pw * (a * p + Stroke * b) <= b * (2 * pw * v + p)
     ELSE 2 * pw * a * (p + Stroke) <= b * (2 * pw * v + (p + Stroke))

PositiveSizes ==
  /\ RefW > 0 /\ RefH > 0 /\ HeartW > 0 /\ HeartH > 0
  /\ ViewportW > 0 /\ ViewportH > 0

\* C7 as stated: for positive sizes the applied scale keeps the scaled path
\* plus its stroke within the heart's rendered viewport on both axes, within
\* rounding tolerance.
C7_ScaleWithinViewport ==
  (Applied /\ PositiveSizes) =>
    (WithinViewport(ViewportW, HeartW) /\ WithinViewport(ViewportH, HeartH))

\* C7 amended: the bound holds on every axis on which a positive scale can
\* meet it, that is with a scaling stroke, and with a non-scaling stroke
\* narrower than the viewport on that axis.
C7_ScaleWithinViewportWhereClamped ==
  (Applied /\ PositiveSizes) =>
    /\ (~StrokeFixed \/ Stroke < ViewportW) => WithinViewport(ViewportW, HeartW)
    /\ (~StrokeFixed \/ Stroke < ViewportH) => WithinViewport(ViewportH, HeartH)

ClaimedDesiredScale == MathMax(Div(RefW, HeartW), Div(RefH, HeartH))

C7_Witness ==
  /\ Applied
  /\ PositiveSizes
  /\ StrokeFixed /\ Stroke > 0 /\ Stroke < ViewportW /\ Stroke < ViewportH
  /\ Less(WrittenScale, ClaimedDesiredScale)

\* the largest scale an axis allows, the desired scale when that is not a
\* positive finite number
ClaimedAxisMax(v, p) ==
  LET max == IF StrokeFixed THEN Div(v - Stroke, p) ELSE Div(v, p + Stroke)
  IN IF max[2] # 0 /\ max[1] > 0 THEN max ELSE ClaimedDesiredScale

ClaimedClamp ==
  MathMin(ClaimedAxisMax(ViewportW, HeartW), ClaimedAxisMax(ViewportH, HeartH))

\* C8: for every precision passed, 0 included, the scale written is
\* min(desired scale, effective clamp) rounded to that number of decimals.
C8_RoundedToConfiguredDecimals ==
  (Applied /\ PositiveSizes) =>
    WrittenScale = RoundTo(MathMin(ClaimedDesiredScale, ClaimedClamp),
                           Pow10(ConfiguredDecimals))

Undetermined(rect, bbox) ==
  \/ (~rect.ok \/ rect.width = 0) /\ (~bbox.ok \/ bbox.width = 0)
  \/ (~rect.ok \/ rect.height = 0) /\ (~bbox.ok \/ bbox.height = 0)

\* an icon is missing, an icon has no path, a size cannot be determined, or
\* the heart's path has no svg around it
MeasurementMissing ==
  \/ scaleIn.referenceIcon = NoElement \/ scaleIn.heartSvg = NoElement
  \/ ~HasPath(scaleIn.referenceIcon) \/ ~HasPath(scaleIn.heartSvg)
  \/ Undetermined(scaleIn.m.refRect, scaleIn.m.refBBox)
  \/ Undetermined(scaleIn.m.heartRect, scaleIn.m.heartBBox)
  \/ ~OwnerSvg(scaleIn.heartSvg, HeartPathAt).found

HeartViewBox ==
  LET svg == ElemAt(scaleIn.heartSvg, OwnerSvg(scaleIn.heartSvg, HeartPathAt).path)
  IN IF HasAttribute(svg, "viewBox") THEN svg.attrs["viewBox"] ELSE <<>>

\* a viewport is declared and does not split into four numbers
ViewportUnparseable ==
  /\ scaleIn.heartSvg # NoElement
  /\ HasPath(scaleIn.heartSvg)
  /\ OwnerSvg(scaleIn.heartSvg, HeartPathAt).found
  /\ HeartViewBox # <<>>
  /\ LET pieces == SplitViewBox(HeartViewBox, <<>>, <<>>)
     IN Len(pieces) # 4 \/ \E i \in DOMAIN pieces : ToNumber(pieces[i]).nan

\* the call changed nothing and logged one warning
Aborted ==
  /\ scaleOut.heart = scaleIn.heartSvg
  /\ Len(scaleOut.console) = 1
  /\ scaleOut.console # <<"log: Heart icon scaled">>

\* the call wrote translate, scale, translate back, then the transform the
\* path had, and changed nothing else
Written ==
  /\ scaleOut.console = <<"log: Heart icon scaled">>
  /\ HasAttribute(PathAfter, "transform")
  /\ Len(TransformAfter) = 3 + Len(TransformBefore)
  /\ TransformAfter[1].fn = "translate"
  /\ TransformAfter[2].fn = "scale"
  /\ IsFiniteNum(WrittenScale)
  /\ TransformAfter[3] = Translate(Neg(TransformAfter[1].args[1]),
                                   Neg(TransformAfter[1].args[2]))
  /\ SubSeq(TransformAfter, 4, Len(TransformAfter)) = TransformBefore
  /\ ReplaceAt(scaleOut.heart, HeartPathAt,
               SetAttribute(PathAfter, "transform", TransformBefore))
       = ReplaceAt(scaleIn.heartSvg, HeartPathAt,
                   SetAttribute(PathBefore, "transform", TransformBefore))

\* C9 as stated: with a measurement missing, an unparseable declared viewport
\* included, the call aborts and leaves the transform alone; otherwise it
\* writes the complete transform.
C9_AbortsOnUnparseableViewport ==
  Scaled =>
    IF MeasurementMissing \/ ViewportUnparseable THEN Aborted ELSE Written

\* C9 amended: the call aborts, changing nothing, exactly when an icon or a
\* path is missing, a width or height cannot be determined, or the path has
\* no svg around it; in every other case, a declared viewport that does not
\* parse included, it writes the complete transform at once.
C9_AllOrNothing ==
  Scaled => IF MeasurementMissing THEN Aborted ELSE Written

C9_Witness ==
  /\ Scaled
  /\ ~MeasurementMissing
  /\ ViewportUnparseable
  /\ Written

RECURSIVE SvgNumberList(_, _)
\* the numbers of a list separated by whitespace and/or one comma, as the
\* viewBox attribute is defined; <<>> when s is no such list
SvgNumberList(s, acc) ==
  LET digits == SelectSeq(s, IsDigit)
      n == CHOOSE k \in 0..Len(s) :
             /\ \A i \in 1..k : IsDigit(s[i])
             /\ k = Len(s) \/ ~IsDigit(s[k + 1])
      rest == SubSeq(s, n + 1, Len(s))
      r1 == DropSpaces(rest)
      r2 == IF r1 # <<>> /\ Head(r1) = "," THEN DropSpaces(Tail(r1)) ELSE r1
  IN IF n = 0 THEN <<>>
     ELSE IF rest = <<>> THEN Append(acc, DigitsValue(SubSeq(s, 1, n), 0))
     ELSE IF r2 = rest THEN <<>>
     ELSE SvgNumberList(r2, Append(acc, DigitsValue(SubSeq(s, 1, n), 0)))

DeclaredViewport == SvgNumberList(HeartViewBox, <<>>)

\* C10: the transform written is translate(cx cy) scale(s) translate(-cx -cy)
\* followed by the prior transform, (cx, cy) being the centre of the declared
\* viewport if one is declared, else the centre of the path's geometry box,
\* else (12, 12).  A declared value that is no list of four numbers is left
\* unconstrained here.
C10_PivotIsViewportCentre ==
  Applied =>
    /\ Written
    /\ LET vb == DeclaredViewport
           bbox == scaleIn.m.heartBBox
           cx == TransformAfter[1].args[1]
           cy == TransformAfter[1].args[2]
       IN IF Len(vb) = 4
          THEN cx = Div(2 * vb[1] + vb[3], 2) /\ cy = Div(2 * vb[2] + vb[4], 2)
          ELSE IF HeartViewBox # <<>> THEN TRUE
          ELSE IF bbox.ok
          THEN cx = Div(2 * bbox.x + bbox.width, 2)
               /\ cy = Div(2 * bbox.y + bbox.height, 2)
          ELSE cx = Num(12) /\ cy = Num(12)

====
